---- MODULE Spec2Model ----
(***************************************************************************)
(* Queue-driven worker supervision and Redis bridging of the AVAI agent:   *)
(*   - the trigger readers (check_redis_trigger.py and                     *)
(*     AutomatedQueueProcessor.check_automation_trigger),                  *)
(*   - the worker supervisor (automated_queue_processor.py),               *)
(*   - the host automation loop (simple_host_automation.py),               *)
(*   - the Redis -> WebSocket response bridge                              *)
(*     (optimized_response_bridge.py),                                     *)
(*   - the Redis <-> canister bridge (redis_canister_bridge.py).           *)
(* Each component has its own specification over the shared Redis keys.    *)
(***************************************************************************)
EXTENDS Integers, Sequences, FiniteSets, TLC

VARIABLES
  \* ---- Redis ----------------------------------------------------------
  redis_up,        \* TRUE while Redis answers; a call made while FALSE raises
  trigger,         \* value of key avai:automation:trigger, NoTrigger if absent
  trigger_writes,  \* number of SETs of the trigger key so far (id of the last)
  automation_log,  \* LLEN avai:automation:log
  prompt_queue,    \* ZCARD avai:prompt_queue
  worker_status,   \* status field of key avai:worker:status, "absent" if unset
  \* ---- trigger readers (one per concurrently running monitor) ---------
  mon_pc,          \* "idle" | "read" (between the GET and the DELETE)
  mon_read,        \* the value the monitor's GET returned
  observed,        \* {<<monitor, write id>>}: checks that returned an action
  \* ---- AutomatedQueueProcessor (automated_queue_processor.py) ---------
  check_interval,        \* CHECK_INTERVAL, seconds
  processing_timeout,    \* PROCESSING_TIMEOUT, seconds
  sup_pc,                \* where run() is: "start", "loop", "queue", "await",
                         \* "grace", "exited", "stopped"
  trigger_received,      \* result of check_automation_trigger in this iteration
  current_process,       \* "None" | "running" | "terminated" (SIGTERM sent)
  orphans,               \* live worker processes the supervisor no longer tracks
  last_process_age,      \* time.time() - last_process_time, saturated
  last_spawn_age,        \* seconds since the last Popen, saturated
  consecutive_failures,
  \* ---- SimpleHostAutomation (simple_host_automation.py) ---------------
  host_pc,               \* "start", "loop", "exited"
  worker_process,        \* "None" | "running" | "dead" (exited, reference kept)
  last_trigger_check,    \* json.dumps of the last trigger acted on
  host_call,             \* the start_worker call of the last iteration's trigger
  os_name,               \* os.name of the host the automation runs on
  \* ---- OptimizedResponseBridge (optimized_response_bridge.py) ---------
  responses,             \* list avai:queue:responses, head first
  pushed,                \* number of entries producers have pushed
  ws_up,                 \* TRUE while the WebSocket endpoint accepts connections
  bridge_pc,             \* "start", "consume", "reconnect", "exited"
  bridge_attempt,        \* attempt number inside init_redis
  bridge_delays,         \* the sleeps of the current init_redis call, in s
  popped,                \* the entries BRPOP returned, in order
  ws_sent,               \* ids of the WebSocket messages sent, in order
  ws_failures,           \* forward attempts that found the endpoint down
  \* ---- RedisCanisterBridge (redis_canister_bridge.py) ------------------
  deploy_queue,          \* list avai:canister:deploy_queue, head first
  query_queue,           \* list avai:canister:query_queue, head first
  canister_results,      \* list avai:canister:results, head first
  bridge_active,         \* RedisCanisterBridge.bridge_active
  loop_pc,               \* position of each _process_canister_requests task
  loop_req,              \* the request each task holds
  time_ms,               \* the clock read by queue_canister_request, in ms
  queued,                \* number of requests producers have pushed
  handled,               \* request ids whose handler has returned, in order
  \* ---- AutomatedQueueProcessor (automated_queue_processor_safe.py) ----
  safe_pc,               \* "start", "loop", "await", "stopped", "exited"
  safe_failures,         \* consecutive_failures of its monitor_and_process
  safe_status,           \* 'status' of avai:automation:worker_status
  safe_ttl,              \* TTL of that key: -2 no key, -1 no expiry
  request,               \* the dict handed to process_avai_request
  dfx,                   \* what the dfx command does when it is run
  reply,                 \* what process_avai_request gave its caller
  calls,                 \* calls of process_avai_request made
  failure_run,           \* consecutive_failures, not saturated
  run_log,               \* per run: its result and the backoff slept after it
  safe_signals           \* signals sent to the worker of the current run

redisVars == <<redis_up, trigger, trigger_writes, automation_log,
               prompt_queue, worker_status>>
monVars == <<mon_pc, mon_read, observed>>
supVars == <<check_interval, processing_timeout, sup_pc, trigger_received,
             current_process, orphans, last_process_age, last_spawn_age,
             consecutive_failures>>

hostVars == <<host_pc, worker_process, last_trigger_check, host_call, os_name>>
bridgeVars == <<responses, pushed, ws_up, bridge_pc, bridge_attempt,
                bridge_delays, popped,
                ws_sent, ws_failures>>

\* What each component's steps leave alone.
canVars == <<deploy_queue, query_queue, canister_results, bridge_active,
             loop_pc, loop_req, time_ms, queued, handled>>
safeVars == <<safe_pc, safe_failures, safe_status, safe_ttl, safe_signals>>
reqVars == <<request, dfx, reply, calls>>
backoffVars == <<failure_run, run_log>>
notMon == <<supVars, hostVars, bridgeVars, canVars, safeVars, reqVars,
           backoffVars>>
notSup == <<monVars, hostVars, bridgeVars, canVars, safeVars, reqVars,
            backoffVars, automation_log>>
notHost == <<monVars, supVars, bridgeVars, canVars, safeVars, reqVars,
            backoffVars>>
notCan == <<monVars, supVars, hostVars, bridgeVars, safeVars, reqVars,
            backoffVars, trigger,
            trigger_writes, automation_log, prompt_queue, worker_status>>
notBridge == <<monVars, supVars, hostVars, canVars, safeVars, reqVars,
               backoffVars, trigger,
               trigger_writes, automation_log, prompt_queue, worker_status>>
notSafe == <<monVars, supVars, hostVars, bridgeVars, canVars, reqVars,
             backoffVars,
             trigger_writes, automation_log, worker_status>>
notReq == <<redisVars, monVars, supVars, hostVars, bridgeVars, canVars,
            safeVars, backoffVars>>
notBackoff == <<redisVars, monVars, supVars, hostVars, bridgeVars, canVars,
                safeVars, reqVars>>
envOnly == <<monVars, supVars, hostVars, bridgeVars, canVars, safeVars,
             reqVars, backoffVars>>

----------------------------------------------------------------------------
\* Bounds of the model.
MaxTriggerWrites == 2
MaxQueue == 2

\* ltrim('avai:automation:log', 0, 99) keeps the last 100 entries.
LogKeep == 100

Min(a, b) == IF a < b THEN a ELSE b

----------------------------------------------------------------------------
\* Trigger values.  A trigger is the string stored under the key; what the
\* readers do with it depends on whether json.loads accepts it, whether the
\* result is a dict, on its 'action' and on its 'timestamp'.
NoTrigger == [json |-> "absent", action |-> "", ts |-> "", id |-> 0]

ValidActions == {"START_WORKER", "STOP_WORKER", "RESTART_WORKER"}

TriggerKinds ==
  { [json |-> "obj", action |-> a, ts |-> "fresh"] :
       a \in ValidActions \cup {"start_worker", "PAUSE_WORKER"} }
  \cup { [json |-> "obj", action |-> "START_WORKER", ts |-> t] :
           t \in {"old", "garbage"} }
  \cup { [json |-> "malformed", action |-> "", ts |-> ""],
         [json |-> "nonobject", action |-> "", ts |-> ""] }

Stamp(k, n) == [json |-> k.json, action |-> k.action, ts |-> k.ts, id |-> n]

\* str.upper() on the action names the model uses.
Upper(a) == IF a = "start_worker" THEN "START_WORKER" ELSE a


----------------------------------------------------------------------------
\* Trigger readers.  Every Redis call is one atomic step; a reader is split
\* where it makes two calls (GET, then DELETE).

ScriptMonitors == {"script1", "script2"}   \* runs of check_redis_trigger.py
AutoMonitors == {"auto1"}                  \* an AutomatedQueueProcessor
Monitors == ScriptMonitors \cup AutoMonitors

\* check_redis_trigger after its GET returned v; up: Redis still answers.
\*   not JSON            -> JSONDecodeError handler: delete, return None
\*   JSON, not a dict    -> AttributeError on .get: outer handler, return None
\*   unparsable timestamp-> ValueError handler: delete, return None
\*   older than 5 min    -> delete, return None
\*   otherwise           -> delete, log, return the upper-cased action if valid
RedisTriggerOutcome(v, up) ==
  LET current == v.json = "obj" /\ v.ts \in {"", "fresh"}
      action == Upper(v.action)
  IN [ result  |-> IF up /\ current /\ action \in ValidActions
                   THEN action ELSE "None",
       deletes |-> up /\ v.json # "nonobject",
       logs    |-> up /\ current ]

\* check_automation_trigger after its GET returned v: only START_WORKER and
\* RESTART_WORKER (compared as written) are deleted and reported; any
\* exception (json.loads, .get on a non-dict, the DELETE) returns False.
AutoTriggerOutcome(v, up) ==
  LET accepted == v.json = "obj" /\ v.action \in {"START_WORKER", "RESTART_WORKER"}
  IN [ result  |-> IF accepted /\ up THEN "True" ELSE "False",
       deletes |-> accepted /\ up,
       logs    |-> FALSE ]

TriggerOutcome(m, v, up) ==
  IF m \in ScriptMonitors THEN RedisTriggerOutcome(v, up)
                          ELSE AutoTriggerOutcome(v, up)

\* The GET of a reader (for the script: connect, ping, GET).
TriggerGet(m) ==
  /\ mon_pc[m] = "idle"
  /\ redis_up /\ trigger # NoTrigger   \* otherwise it returns at once
  /\ mon_pc' = [mon_pc EXCEPT ![m] = "read"]
  /\ mon_read' = [mon_read EXCEPT ![m] = trigger]
  /\ UNCHANGED <<redisVars, observed, notMon>>

\* The rest of the reader: parse, DELETE (and LPUSH/LTRIM of the log), return.
TriggerFinish(m) ==
  /\ mon_pc[m] = "read"
  /\ LET v == mon_read[m]
         o == TriggerOutcome(m, v, redis_up)
     IN /\ trigger' = IF o.deletes THEN NoTrigger ELSE trigger
        /\ automation_log' = IF o.logs THEN Min(automation_log + 1, LogKeep)
                                       ELSE automation_log
        /\ observed' = IF o.result \in {"None", "False"} THEN observed
                       ELSE observed \cup {<<m, v.id>>}
  /\ mon_pc' = [mon_pc EXCEPT ![m] = "idle"]
  /\ mon_read' = [mon_read EXCEPT ![m] = NoTrigger]
  /\ UNCHANGED <<redis_up, trigger_writes, prompt_queue, worker_status, notMon>>

\* An external actor (the container orchestrator) SETs the trigger key.
SetTrigger(k) ==
  /\ redis_up
  /\ trigger_writes < MaxTriggerWrites
  /\ trigger_writes' = trigger_writes + 1
  /\ trigger' = Stamp(k, trigger_writes + 1)
  /\ UNCHANGED <<redis_up, automation_log, prompt_queue, worker_status, envOnly>>

RedisFails ==
  /\ redis_up
  /\ redis_up' = FALSE
  /\ UNCHANGED <<trigger, trigger_writes, automation_log, prompt_queue,
                 worker_status, envOnly>>

RedisRecovers ==
  /\ ~redis_up
  /\ redis_up' = TRUE
  /\ UNCHANGED <<trigger, trigger_writes, automation_log, prompt_queue,
                 worker_status, envOnly>>

RedisInit ==
  /\ redis_up = TRUE
  /\ trigger = NoTrigger
  /\ trigger_writes = 0
  /\ automation_log = 0
  /\ prompt_queue = 0
  /\ worker_status = "absent"

MonInit ==
  /\ mon_pc = [m \in Monitors |-> "idle"]
  /\ mon_read = [m \in Monitors |-> NoTrigger]
  /\ observed = {}


\* The trigger readers racing on one Redis.
TrigInit == RedisInit /\ MonInit

TrigNext ==
  \/ \E m \in Monitors : TriggerGet(m)
  \/ \E m \in Monitors : TriggerFinish(m)
  \/ \E k \in TriggerKinds : SetTrigger(k)
  \/ RedisFails
  \/ RedisRecovers


----------------------------------------------------------------------------
\* AutomatedQueueProcessor: run(), monitor_and_process(), run_main_enhanced().

min_process_interval == 5
max_failures == 5
backoff_time == 10
GracePeriod == 10

\* Configured values of CHECK_INTERVAL and PROCESSING_TIMEOUT (defaults 10, 300).
CheckIntervals == {1, 10}
ProcessingTimeouts == {2, 300}
\* How long a worker that exits by itself may run, and how long one takes to
\* exit after SIGTERM when it does so within the grace period.
WorkerDurations == {0, 6}
GraceDurations == {1}

MaxOrphans == 1
MaxFailures == 5

\* Ages are compared only with min_process_interval: they saturate there.
Sat(t) == Min(t, min_process_interval)

LiveWorkers ==
  (IF current_process \in {"running", "terminated"} THEN 1 ELSE 0) + orphans

\* update_worker_status: SETEX of the status key. `pub` tells whether the
\* SETEX went through, which it does when Redis answers during the step. The
\* except clause logs the error and returns, so nothing is raised into the
\* caller.
Publishes == {redis_up}
StatusAfter(s, pub) == IF pub THEN s ELSE worker_status
Propagates(pub) == ~pub
Raised(pub) == FALSE

\* check_queue_status()['has_work'], or FALSE when it returns None.
HasWork == redis_up /\ prompt_queue > 0

\* monitor_and_process after run_main_enhanced returned `success`, with the
\* two ages as they are at the return: failure accounting, the re-check of
\* the queue after a success (continue), the backoff and the poll sleep.
\* The counter is only compared with max_failures and only lengthens a sleep
\* that already saturates the ages: it is kept up to MaxFailures.
\* The extra sleep after a run that left the counter at cf.
Backoff(success, cf) ==
  IF ~success /\ cf >= max_failures THEN backoff_time * cf ELSE 0

AlwaysSleeps(success) == FALSE
MoreWork(success) == success /\ HasWork

MonitorAfterRun(success, lpa, lsa) ==
  LET cf == IF success THEN 0 ELSE consecutive_failures + 1
      more == MoreWork(success)
      backoff == Backoff(success, cf)
      sleep == IF more THEN 0 ELSE backoff + check_interval
  IN /\ consecutive_failures' = Min(cf, MaxFailures)
     /\ last_process_age' = Sat(lpa + sleep)
     /\ last_spawn_age' = Sat(lsa + sleep)
     /\ sup_pc' = "loop"

\* run(): connect_redis, the 'ready' status, then the monitoring loop.
DegradedMode(connected) == "loop"
PcAfterConnect(connected) == IF connected THEN "loop" ELSE "exited"

SupStart(pub) ==
  /\ sup_pc = "start"
  /\ sup_pc' = PcAfterConnect(redis_up)
  /\ IF redis_up
     THEN worker_status' = StatusAfter("ready", pub)
     ELSE UNCHANGED worker_status
  /\ UNCHANGED <<redis_up, trigger, trigger_writes, prompt_queue,
                 check_interval, processing_timeout, trigger_received,
                 current_process, orphans, last_process_age, last_spawn_age,
                 consecutive_failures, notSup>>

\* Top of the loop: check_automation_trigger (GET, and DELETE if accepted).
SupCheckTrigger ==
  /\ sup_pc = "loop"
  /\ LET o == IF redis_up /\ trigger # NoTrigger
              THEN AutoTriggerOutcome(trigger, TRUE)
              ELSE [result |-> "False", deletes |-> FALSE, logs |-> FALSE]
     IN /\ trigger_received' = (o.result = "True")
        /\ trigger' = IF o.deletes THEN NoTrigger ELSE trigger
  /\ sup_pc' = "queue"
  /\ UNCHANGED <<redis_up, trigger_writes, prompt_queue, worker_status,
                 check_interval, processing_timeout,
                 current_process, orphans, last_process_age, last_spawn_age,
                 consecutive_failures, notSup>>

\* run_main_enhanced up to the await: rate limit, liveness guard, 'starting',
\* Popen, 'running'.  popen_ok = FALSE: Popen raises.
RunMainEnhancedEntry(popen_ok, pub) ==
  LET limited == last_process_age < min_process_interval
      busy == current_process = "running"
  IN IF limited \/ busy
     THEN /\ MonitorAfterRun(FALSE, last_process_age, last_spawn_age)
          /\ UNCHANGED <<worker_status, current_process>>
     ELSE IF popen_ok
     THEN /\ worker_status' = StatusAfter("running", pub)
          /\ current_process' = "running"
          /\ last_spawn_age' = 0
          /\ sup_pc' = "await"
          /\ UNCHANGED <<last_process_age, consecutive_failures>>
     ELSE /\ worker_status' = StatusAfter("error", pub)
          /\ MonitorAfterRun(FALSE, last_process_age, last_spawn_age)
          /\ UNCHANGED current_process

\* should_process: check_queue_status returned a status (Redis answered) and
\* a trigger was received or the queue has work.
ShouldProcessAlways == redis_up
ShouldProcess == redis_up /\ (trigger_received \/ prompt_queue > 0)

\* The rest of an iteration: check_queue_status, the decision, and either
\* run_main_enhanced or the poll sleep.
SupProcess(pub) ==
  /\ sup_pc = "queue"
  /\ IF ShouldProcess
     THEN \E popen_ok \in BOOLEAN : RunMainEnhancedEntry(popen_ok, pub)
     ELSE /\ last_process_age' = Sat(last_process_age + check_interval)
          /\ last_spawn_age' = Sat(last_spawn_age + check_interval)
          /\ sup_pc' = "loop"
          /\ UNCHANGED <<worker_status, current_process, consecutive_failures>>
  /\ UNCHANGED <<redis_up, trigger, trigger_writes, prompt_queue,
                 check_interval, processing_timeout, trigger_received,
                 orphans, notSup>>

\* communicate() returns before the timeout: the worker exited with `code`
\* after running d seconds.
WorkerExits(code, d, pub) ==
  /\ sup_pc = "await"
  /\ d < processing_timeout
  /\ worker_status' =
       StatusAfter(IF code = 0 THEN "completed" ELSE "failed", pub)
  /\ current_process' = "None"
  /\ MonitorAfterRun(code = 0 /\ ~Raised(pub), 0, Sat(last_spawn_age + d))
  /\ UNCHANGED <<redis_up, trigger, trigger_writes, prompt_queue,
                 check_interval, processing_timeout, trigger_received,
                 orphans, notSup>>

\* wait_for raises TimeoutError after processing_timeout: terminate().
WorkerTimeout ==
  /\ sup_pc = "await"
  /\ current_process' = "terminated"
  /\ last_process_age' = Sat(last_process_age + processing_timeout)
  /\ last_spawn_age' = Sat(last_spawn_age + processing_timeout)
  /\ sup_pc' = "grace"
  /\ UNCHANGED <<redis_up, trigger, trigger_writes, prompt_queue, worker_status,
                 check_interval, processing_timeout, trigger_received,
                 orphans, consecutive_failures, notSup>>

\* The worker exits d seconds after SIGTERM: wait() returns, 'timeout'.
GraceExit(d, pub) ==
  /\ sup_pc = "grace"
  /\ d < GracePeriod
  /\ worker_status' = StatusAfter("timeout", pub)
  /\ current_process' = "None"
  /\ MonitorAfterRun(FALSE, Sat(last_process_age + d), Sat(last_spawn_age + d))
  /\ UNCHANGED <<redis_up, trigger, trigger_writes, prompt_queue,
                 check_interval, processing_timeout, trigger_received,
                 orphans, notSup>>

\* The grace period ends with the worker alive: kill(), which is not followed
\* by a wait; 'timeout'; the finally clause drops the reference.
GraceKill(pub) ==
  /\ sup_pc = "grace"
  /\ orphans < MaxOrphans
  /\ orphans' = orphans + 1
  /\ worker_status' = StatusAfter("timeout", pub)
  /\ current_process' = "None"
  /\ MonitorAfterRun(FALSE, Sat(last_process_age + GracePeriod),
                     Sat(last_spawn_age + GracePeriod))
  /\ UNCHANGED <<redis_up, trigger, trigger_writes, prompt_queue,
                 check_interval, processing_timeout, trigger_received,
                 notSup>>

\* The await raises something other than TimeoutError: 'error', and the
\* finally clause drops the reference to a worker that is still running.
AwaitRaises(pub) ==
  /\ sup_pc = "await"
  /\ orphans < MaxOrphans
  /\ orphans' = orphans + 1
  /\ worker_status' = StatusAfter("error", pub)
  /\ current_process' = "None"
  /\ MonitorAfterRun(FALSE, last_process_age, last_spawn_age)
  /\ UNCHANGED <<redis_up, trigger, trigger_writes, prompt_queue,
                 check_interval, processing_timeout, trigger_received,
                 notSup>>

\* run() is ended from outside while the loop runs (SIGINT or SIGTERM: the
\* handler's sys.exit ends the event loop and the task is cancelled at its
\* await). Neither CancelledError nor SystemExit is an Exception, so only
\* the finally clauses run: run_main_enhanced drops its reference to the
\* worker, then run() writes 'stopped' and terminates current_process if
\* there still is one.
SupInterrupted(pub) ==
  /\ sup_pc \in {"loop", "queue", "await", "grace"}
  /\ LET tracked == current_process \in {"running", "terminated"}
     IN /\ tracked => orphans < MaxOrphans
        /\ orphans' = IF tracked THEN orphans + 1 ELSE orphans
        /\ current_process' = "None"
  /\ worker_status' = StatusAfter("stopped", pub)
  /\ sup_pc' = "stopped"
  /\ UNCHANGED <<redis_up, trigger, trigger_writes, prompt_queue,
                 check_interval, processing_timeout, trigger_received,
                 last_process_age, last_spawn_age, consecutive_failures,
                 notSup>>

\* A process the supervisor no longer tracks ends (SIGKILL takes effect, or
\* it finishes).
OrphanDies ==
  /\ orphans > 0
  /\ orphans' = orphans - 1
  /\ UNCHANGED <<redisVars, check_interval, processing_timeout, sup_pc,
                 trigger_received, current_process, last_process_age,
                 last_spawn_age, consecutive_failures, notSup>>

\* A live worker (main_enhanced.py --queue-only) takes an entry off the queue.
WorkerDrains ==
  /\ LiveWorkers > 0
  /\ redis_up
  /\ prompt_queue > 0
  /\ prompt_queue' = prompt_queue - 1
  /\ UNCHANGED <<redis_up, trigger, trigger_writes, automation_log,
                 worker_status, envOnly>>

\* A producer adds an entry to avai:prompt_queue.
Enqueue ==
  /\ redis_up
  /\ prompt_queue < MaxQueue
  /\ prompt_queue' = prompt_queue + 1
  /\ UNCHANGED <<redis_up, trigger, trigger_writes, automation_log,
                 worker_status, envOnly>>

SupInit ==
  /\ check_interval \in CheckIntervals
  /\ processing_timeout \in ProcessingTimeouts
  /\ sup_pc = "start"
  /\ trigger_received = FALSE
  /\ current_process = "None"
  /\ orphans = 0
  /\ last_process_age = min_process_interval
  /\ last_spawn_age = min_process_interval
  /\ consecutive_failures = 0

\* The triggers an orchestrator sends a supervisor.
SupTriggerKinds ==
  { k \in TriggerKinds : k.json = "malformed"
       \/ (k.ts = "fresh" /\ k.action \in {"START_WORKER", "STOP_WORKER"}) }

SupNext ==
  \/ \E pub \in Publishes : SupStart(pub)
  \/ SupCheckTrigger
  \/ \E pub \in Publishes : SupProcess(pub)
  \/ \E code \in {0, 1} : \E d \in WorkerDurations : \E pub \in Publishes :
       WorkerExits(code, d, pub)
  \/ WorkerTimeout
  \/ \E d \in GraceDurations : \E pub \in Publishes : GraceExit(d, pub)
  \/ \E pub \in Publishes : GraceKill(pub)
  \/ \E pub \in Publishes : AwaitRaises(pub)
  \/ \E pub \in Publishes : SupInterrupted(pub)
  \/ OrphanDies
  \/ WorkerDrains
  \/ Enqueue
  \/ \E k \in SupTriggerKinds : SetTrigger(k)
  \/ RedisFails
  \/ RedisRecovers



----------------------------------------------------------------------------
\* SimpleHostAutomation: run(), start_worker(), stop_worker().

NoCall == [made |-> FALSE, live |-> FALSE, result |-> "none", spawned |-> FALSE]

\* is_worker_running(): poll(); a reference to an exited process is dropped.
AfterPoll(wp) == IF wp = "dead" THEN "None" ELSE wp

\* start_worker() with worker_process = wp: nothing to do and True when the
\* worker runs; otherwise Popen, True, or False when Popen raises.
StartWorker(wp, popen_ok) ==
  IF AfterPoll(wp) = "running"
  THEN [wp |-> wp, made |-> TRUE, live |-> TRUE, result |-> "True",
        spawned |-> FALSE]
  ELSE IF popen_ok
  THEN [wp |-> "running", made |-> TRUE, live |-> FALSE, result |-> "True",
        spawned |-> TRUE]
  ELSE [wp |-> "None", made |-> TRUE, live |-> FALSE, result |-> "False",
        spawned |-> FALSE]

\* stop_worker(): terminate, wait(10), else kill and wait; the reference is
\* dropped unless signalling or waiting raised.
StopOutcomes == {"graceful", "forced", "raises"}
StopWorker(wp, outcome) ==
  IF wp = "running" /\ outcome = "raises" THEN wp ELSE "None"

\* The worker is started without a process group or session of its own
\* (creationflags is 0 off Windows), so os.killpg(os.getpgid(pid), SIGTERM)
\* in stop_worker signals the automation as well: signal_handler runs,
\* calls stop_worker again and ends in sys.exit(0).
OsNames == {"nt", "posix"}
SignalsOwnGroup(wp) == os_name = "posix" /\ wp # "None"

\* The worker after SIGTERM when the automation has exited in its signal
\* handler: gone when it obeys the signal, else left as it was.
AfterSelfSignal(wp, outcome) == IF outcome = "graceful" THEN "None" ELSE wp

\* check_trigger(): GET and json.loads; None on any exception.  The key is
\* never deleted by this loop.
HostCheckTrigger ==
  IF redis_up /\ trigger.json \in {"obj", "nonobject"}
  THEN Stamp(trigger, 0) ELSE NoTrigger

\* One iteration of the while loop of run().
HostIteration(stop_outcome, popen_ok) ==
  /\ host_pc = "loop"
  /\ LET t == HostCheckTrigger
     IN IF t.json = "nonobject"
        THEN \* trigger.get raises: the handler sleeps 10 s, no health check
             UNCHANGED <<host_pc, worker_process, last_trigger_check, host_call>>
        ELSE LET fresh == t # NoTrigger /\ t # last_trigger_check
                 action == Upper(t.action)
                 stopped == StopWorker(worker_process, stop_outcome)
                 call == IF ~fresh THEN NoCall
                         ELSE IF action = "START_WORKER"
                           THEN StartWorker(worker_process, popen_ok)
                         ELSE IF action = "RESTART_WORKER"
                           THEN StartWorker(stopped, popen_ok)
                         ELSE NoCall
                 wp1 == IF ~fresh THEN worker_process
                        ELSE IF action \in {"START_WORKER", "RESTART_WORKER"}
                          THEN call.wp
                        ELSE IF action = "STOP_WORKER" THEN stopped
                        ELSE worker_process
                 wp2 == AfterPoll(wp1)
                 health == IF wp2 # "running" /\ redis_up /\ prompt_queue > 0
                           THEN StartWorker(wp2, popen_ok).wp ELSE wp2
                 stops == fresh /\ action \in {"RESTART_WORKER", "STOP_WORKER"}
             IN IF stops /\ SignalsOwnGroup(worker_process)
                THEN /\ host_pc' = "exited"
                     /\ worker_process' = AfterSelfSignal(worker_process, stop_outcome)
                     /\ UNCHANGED <<last_trigger_check, host_call>>
                ELSE /\ worker_process' = health
                     /\ last_trigger_check' = IF fresh THEN t ELSE last_trigger_check
                     /\ host_call' = [made |-> call.made, live |-> call.live,
                                      result |-> call.result, spawned |-> call.spawned]
                     /\ host_pc' = host_pc
  /\ UNCHANGED <<redisVars, os_name, notHost>>

\* run() up to the loop: connect_redis.
HostStart ==
  /\ host_pc = "start"
  /\ host_pc' = IF redis_up THEN "loop" ELSE "exited"
  /\ UNCHANGED <<redisVars, worker_process, last_trigger_check, host_call,
                 os_name, notHost>>

\* The worker (main.py --redis-only) exits by itself.
HostWorkerExits ==
  /\ worker_process = "running"
  /\ worker_process' = "dead"
  /\ UNCHANGED <<redisVars, host_pc, last_trigger_check, host_call, os_name,
                 notHost>>

\* The running worker takes an entry off the queue.
HostWorkerDrains ==
  /\ worker_process = "running"
  /\ redis_up
  /\ prompt_queue > 0
  /\ prompt_queue' = prompt_queue - 1
  /\ UNCHANGED <<redis_up, trigger, trigger_writes, automation_log,
                 worker_status, envOnly>>

HostLiveWorkers == IF worker_process = "running" THEN 1 ELSE 0

HostInit ==
  /\ host_pc = "start"
  /\ worker_process = "None"
  /\ last_trigger_check = NoTrigger
  /\ host_call = NoCall
  /\ os_name \in OsNames

HostNext ==
  \/ HostStart
  \/ \E so \in StopOutcomes : \E ok \in BOOLEAN : HostIteration(so, ok)
  \/ HostWorkerExits
  \/ HostWorkerDrains
  \/ Enqueue
  \/ \E k \in TriggerKinds : SetTrigger(k)
  \/ RedisFails
  \/ RedisRecovers

----------------------------------------------------------------------------
\* OptimizedResponseBridge: run(), init_redis(), consume_responses(),
\* forward_response().

MaxResponses == 3
max_retries == 5

\* What a producer may leave on the list: a JSON object, JSON that is not an
\* object, or a string that is not JSON.
ResponseKinds == {"obj", "nonobject", "malformed"}

Front(q) == SubSeq(q, 1, Len(q) - 1)
Last(q) == q[Len(q)]

\* forward_response sends for an entry that json.loads turned into a dict:
\* a non-JSON entry never reaches it, and response_data.get raises on
\* anything else.
ForwardsAll(e) == TRUE
Forwardable(e) == e.json = "obj"

\* The list after an entry was popped and its send failed or was skipped:
\* nothing is pushed back.
Requeued(q, e) == <<e>> \o q
AfterPop(q, e) == q

\* Where the consume loop is after an entry was handled: both handlers
\* around json.loads / forward_response log and fall through to the next
\* pass.
PcStopsOnMalformed(e) == IF e.json = "malformed" THEN "exited" ELSE "consume"
PcAfterEntry(e) == "consume"

\* init_redis: sleep 2^attempt after a failed attempt that is not the last;
\* give up after max_retries failed attempts.
Delay(attempt) == 2 ^ attempt
NeverGivesUp(failed) == FALSE
GivesUpAtOnce(failed) == TRUE
GivesUp(failed) == failed = max_retries

\* Producers LPUSH at the head; BRPOP takes the entry at the tail, the oldest
\* one on the list.
Lpop(q) == [entry |-> Head(q), rest |-> Tail(q)]
Brpop(q) == [entry |-> Last(q), rest |-> Front(q)]

\* One pass of the consume loop with Redis answering and the list non-empty:
\* BRPOP takes the tail entry, json.loads, forward_response (awaited before
\* the next BRPOP).
BridgeConsume ==
  /\ bridge_pc = "consume"
  /\ redis_up
  /\ Len(responses) > 0
  /\ LET e == Brpop(responses).entry
         rest == Brpop(responses).rest
         sends == Forwardable(e) /\ ws_up
     IN /\ popped' = Append(popped, e)
        /\ responses' = IF sends THEN rest ELSE AfterPop(rest, e)
        /\ ws_sent' = IF sends THEN Append(ws_sent, e.id) ELSE ws_sent
        /\ ws_failures' = IF e.json # "malformed" /\ ~ws_up
                          THEN ws_failures + 1 ELSE ws_failures
        /\ bridge_pc' = PcAfterEntry(e)
  /\ UNCHANGED <<redis_up, pushed, ws_up, bridge_attempt, bridge_delays,
                 notBridge>>

\* BRPOP raises ConnectionError: sleep 2 s and call init_redis.
BridgeConnectionLost ==
  /\ bridge_pc = "consume"
  /\ ~redis_up
  /\ bridge_pc' = "reconnect"
  /\ bridge_attempt' = 0
  /\ bridge_delays' = <<>>
  /\ UNCHANGED <<redis_up, responses, pushed, ws_up, popped, ws_sent,
                 ws_failures, notBridge>>

\* One attempt of init_redis (at start-up or after a lost connection): ping;
\* on failure sleep 2^attempt and try again, max_retries attempts in all.
BridgeInitAttempt ==
  /\ bridge_pc \in {"start", "reconnect"}
  /\ IF redis_up
     THEN /\ bridge_pc' = "consume"
          /\ bridge_attempt' = 0
          /\ bridge_delays' = <<>>
     ELSE /\ bridge_attempt' = bridge_attempt + 1
          /\ bridge_pc' = IF GivesUp(bridge_attempt + 1)
                          THEN "exited" ELSE bridge_pc
          /\ bridge_delays' = IF bridge_attempt < max_retries - 1
                              THEN Append(bridge_delays, Delay(bridge_attempt))
                              ELSE bridge_delays
  /\ UNCHANGED <<redis_up, responses, pushed, ws_up, popped, ws_sent,
                 ws_failures, notBridge>>

\* A producer (worker or canister layer) LPUSHes a result.
PushResponse(kind) ==
  /\ redis_up
  /\ pushed < MaxResponses
  /\ pushed' = pushed + 1
  /\ responses' = <<[json |-> kind, id |-> pushed + 1]>> \o responses
  /\ UNCHANGED <<redis_up, ws_up, bridge_pc, bridge_attempt, bridge_delays,
                 popped, ws_sent, ws_failures, notBridge>>

WsFails ==
  /\ ws_up
  /\ ws_up' = FALSE
  /\ UNCHANGED <<redis_up, responses, pushed, bridge_pc, bridge_attempt,
                 bridge_delays, popped, ws_sent, ws_failures, notBridge>>

WsRecovers ==
  /\ ~ws_up
  /\ ws_up' = TRUE
  /\ UNCHANGED <<redis_up, responses, pushed, bridge_pc, bridge_attempt,
                 bridge_delays, popped, ws_sent, ws_failures, notBridge>>

BridgeInit ==
  /\ responses = <<>>
  /\ pushed = 0
  /\ ws_up = TRUE
  /\ bridge_pc = "start"
  /\ bridge_attempt = 0
  /\ bridge_delays = <<>>
  /\ popped = <<>>
  /\ ws_sent = <<>>
  /\ ws_failures = 0

BridgeNext ==
  \/ BridgeInitAttempt
  \/ BridgeConsume
  \/ BridgeConnectionLost
  \/ \E kind \in ResponseKinds : PushResponse(kind)
  \/ WsFails
  \/ WsRecovers
  \/ RedisFails
  \/ RedisRecovers

----------------------------------------------------------------------------
\* RedisCanisterBridge: start_bridge(), stop_bridge(),
\* _process_canister_requests(), _check_*_queue(), _handle_*_request(),
\* _send_result_to_redis(), queue_canister_request(); CanisterManager.

MaxRequests == 2
MaxMs == 2
MaxLoops == 2

Loops == 1..MaxLoops
RequestTypes == {"deploy", "query"}
NoRequest == [request_id |-> 0, type |-> "", nested |-> FALSE]

\* queue_canister_request wraps the caller's fields under "data"; a producer
\* writing to the list directly puts canister_name, method, network at the
\* top level, where CanisterManager looks for them.
Request(id, type, nested) == [request_id |-> id, type |-> type, nested |-> nested]

\* The id is "canister_req_" followed by the clock in whole milliseconds: two
\* ids are equal exactly when the two clock readings are.
RequestId(ms) == ms

\* CanisterManager.deploy_canister / query_canister: a dict with 'success',
\* never an exception.  With the fields nested under "data" the canister
\* name is None and the dfx command cannot be built.
CanisterOutcome(req, dfx_ok) == ~req.nested /\ dfx_ok

Count(q, id) == Cardinality({i \in 1..Len(q) : q[i].request_id = id})

\* _send_result_to_redis: nothing without a request id; LPUSH otherwise, and
\* an error raised by LPUSH is logged and swallowed.
SendResultToRedis(results, req, success, up) ==
  IF req.request_id # 0 /\ up
  THEN <<[request_id |-> req.request_id, success |-> success]>> \o results
  ELSE results

StartBridge ==
  /\ \E l \in Loops :
       /\ loop_pc[l] = "none"
       /\ \A k \in Loops : k < l => loop_pc[k] # "none"
       /\ loop_pc' = [loop_pc EXCEPT ![l] = "deploy"]
  /\ bridge_active' = TRUE
  /\ UNCHANGED <<redis_up, deploy_queue, query_queue, canister_results,
                 loop_req, time_ms, queued, handled, notCan>>

StopBridge ==
  /\ bridge_active
  /\ bridge_active' = FALSE
  /\ UNCHANGED <<redis_up, deploy_queue, query_queue, canister_results,
                 loop_pc, loop_req, time_ms, queued, handled, notCan>>

\* Top of the while loop, after the sleep: leave when bridge_active is off.
LoopWake(l) ==
  /\ loop_pc[l] = "sleep"
  /\ loop_pc' = [loop_pc EXCEPT ![l] = IF bridge_active THEN "deploy" ELSE "none"]
  /\ UNCHANGED <<redis_up, deploy_queue, query_queue, canister_results,
                 bridge_active, loop_req, time_ms, queued, handled, notCan>>

\* _check_deploy_queue: RPOP the tail; None on an empty list or a Redis error.
LoopCheckDeploy(l) ==
  /\ loop_pc[l] = "deploy"
  /\ IF redis_up /\ Len(deploy_queue) > 0
     THEN /\ deploy_queue' = Front(deploy_queue)
          /\ loop_req' = [loop_req EXCEPT ![l] = Last(deploy_queue)]
          /\ loop_pc' = [loop_pc EXCEPT ![l] = "handle_deploy"]
     ELSE /\ loop_pc' = [loop_pc EXCEPT ![l] = "query"]
          /\ UNCHANGED <<deploy_queue, loop_req>>
  /\ UNCHANGED <<redis_up, query_queue, canister_results, bridge_active,
                 time_ms, queued, handled, notCan>>

\* _check_query_queue.
LoopCheckQuery(l) ==
  /\ loop_pc[l] = "query"
  /\ IF redis_up /\ Len(query_queue) > 0
     THEN /\ query_queue' = Front(query_queue)
          /\ loop_req' = [loop_req EXCEPT ![l] = Last(query_queue)]
          /\ loop_pc' = [loop_pc EXCEPT ![l] = "handle_query"]
     ELSE /\ loop_pc' = [loop_pc EXCEPT ![l] = "sleep"]
          /\ UNCHANGED <<query_queue, loop_req>>
  /\ UNCHANGED <<redis_up, deploy_queue, canister_results, bridge_active,
                 time_ms, queued, handled, notCan>>

\* _handle_deploy_request / _handle_query_request: run the operation, send
\* the result, go on to the next step of the iteration.
LoopHandle(l, dfx_ok) ==
  /\ loop_pc[l] \in {"handle_deploy", "handle_query"}
  /\ canister_results' = SendResultToRedis(canister_results, loop_req[l],
                            CanisterOutcome(loop_req[l], dfx_ok), redis_up)
  /\ handled' = Append(handled, loop_req[l])
  /\ loop_req' = [loop_req EXCEPT ![l] = NoRequest]
  /\ loop_pc' = [loop_pc EXCEPT ![l] =
                   IF loop_pc[l] = "handle_deploy" THEN "query" ELSE "sleep"]
  /\ UNCHANGED <<redis_up, deploy_queue, query_queue, bridge_active, time_ms,
                 queued, notCan>>

PushRequest(req) ==
  /\ deploy_queue' = IF req.type = "deploy" THEN <<req>> \o deploy_queue
                                             ELSE deploy_queue
  /\ query_queue' = IF req.type = "query" THEN <<req>> \o query_queue
                                           ELSE query_queue

\* queue_canister_request: the id is read off the clock; LPUSH.  When Redis
\* is down the push raises and "" is returned.
QueueCanisterRequest(type) ==
  /\ queued < MaxRequests
  /\ queued' = queued + 1
  /\ IF redis_up
     THEN PushRequest(Request(RequestId(time_ms), type, TRUE))
     ELSE UNCHANGED <<deploy_queue, query_queue>>
  /\ UNCHANGED <<redis_up, canister_results, bridge_active, loop_pc, loop_req,
                 time_ms, handled, notCan>>

\* Another producer LPUSHes a request with top-level fields and its own id
\* (0: no request_id field).
ProducerPush(type, id) ==
  /\ redis_up
  /\ queued < MaxRequests
  /\ queued' = queued + 1
  /\ PushRequest(Request(id, type, FALSE))
  /\ UNCHANGED <<redis_up, canister_results, bridge_active, loop_pc, loop_req,
                 time_ms, handled, notCan>>

Tick ==
  /\ time_ms < MaxMs
  /\ time_ms' = time_ms + 1
  /\ UNCHANGED <<redis_up, deploy_queue, query_queue, canister_results,
                 bridge_active, loop_pc, loop_req, queued, handled, notCan>>

CanInit ==
  /\ deploy_queue = <<>>
  /\ query_queue = <<>>
  /\ canister_results = <<>>
  /\ bridge_active = FALSE
  /\ loop_pc = [l \in Loops |-> "none"]
  /\ loop_req = [l \in Loops |-> NoRequest]
  /\ time_ms = 1
  /\ queued = 0
  /\ handled = <<>>

CanNext ==
  \/ StartBridge
  \/ StopBridge
  \/ \E l \in Loops : LoopWake(l)
  \/ \E l \in Loops : LoopCheckDeploy(l)
  \/ \E l \in Loops : LoopCheckQuery(l)
  \/ \E l \in Loops, dfx_ok \in BOOLEAN : LoopHandle(l, dfx_ok)
  \/ \E type \in RequestTypes : QueueCanisterRequest(type)
  \/ \E type \in RequestTypes, id \in 0..MaxMs : ProducerPush(type, id)
  \/ Tick
  \/ RedisFails
  \/ RedisRecovers

----------------------------------------------------------------------------
\* automated_queue_processor_safe.py: run(), monitor_and_process(),
\* run_main_enhanced(), cleanup().  simple_queue_processor.py runs the same
\* loop without the status writes.

\* update_worker_status: HSET of the status hash; a Redis error is swallowed.
SafeStatusAfter(cur, s) == IF redis_up THEN s ELSE cur

\* The key's TTL after update_worker_status: HSET creates the key without an
\* expiry and leaves the TTL of an existing key as it is; no EXPIRE follows.
TtlAfterHset(ttl) == IF ttl = -2 THEN -1 ELSE ttl
SafeTtlAfter == IF redis_up THEN TtlAfterHset(safe_ttl) ELSE safe_ttl

\* monitor_and_process after run_main_enhanced returned: a success clears the
\* counter; the max_failures-th failure in a row breaks out of the loop, and
\* run() goes on to cleanup(), which writes 'stopped'.
TooManyFailures(failed) == failed >= max_failures

SafeAfterRun(success, status) ==
  LET cf == IF success THEN 0 ELSE safe_failures + 1
      stop == ~success /\ TooManyFailures(cf)
  IN /\ safe_failures' = cf
     /\ safe_pc' = IF stop THEN "stopped" ELSE "loop"
     /\ safe_status' = IF stop THEN SafeStatusAfter(status, "stopped") ELSE status

\* run() up to the loop: connect_redis (ping) and the 'ready' status.
SafeStart ==
  /\ safe_pc = "start"
  /\ IF redis_up
     THEN /\ safe_pc' = "loop"
          /\ safe_status' = "ready"
     ELSE /\ safe_pc' = "exited"
          /\ UNCHANGED safe_status
  /\ safe_ttl' = SafeTtlAfter
  /\ UNCHANGED <<redis_up, trigger, prompt_queue, safe_failures, safe_signals,
                 notSafe>>

\* One pass of the loop up to the await: check_automation_trigger (any value
\* under the key counts and is deleted), check_queue_size (0 on an error),
\* and either run_main_enhanced up to the subprocess or the poll sleep.
SafeIteration(spawn_ok) ==
  /\ safe_pc = "loop"
  /\ LET triggered == redis_up /\ trigger # NoTrigger
         queue_size == IF redis_up THEN prompt_queue ELSE 0
         processing == SafeStatusAfter(safe_status, "processing")
     IN /\ trigger' = IF triggered THEN NoTrigger ELSE trigger
        /\ IF triggered \/ queue_size > 0
           THEN /\ safe_ttl' = SafeTtlAfter
                /\ IF spawn_ok
                   THEN /\ safe_pc' = "await"
                        /\ safe_status' = processing
                        /\ safe_signals' = <<>>
                        /\ UNCHANGED safe_failures
                   ELSE /\ SafeAfterRun(FALSE,
                                       SafeStatusAfter(processing, "error"))
                        /\ UNCHANGED safe_signals
           ELSE /\ safe_failures' = 0
                /\ UNCHANGED <<safe_pc, safe_status, safe_ttl, safe_signals>>
  /\ UNCHANGED <<redis_up, prompt_queue, notSafe>>

\* communicate() returns within the 300 s: 'ready' on exit code 0, else 'error'.
SafeWorkerExits(code) ==
  /\ safe_pc = "await"
  /\ SafeAfterRun(code = 0,
        SafeStatusAfter(safe_status, IF code = 0 THEN "ready" ELSE "error"))
  /\ safe_ttl' = SafeTtlAfter
  /\ UNCHANGED <<redis_up, trigger, prompt_queue, safe_signals, notSafe>>

\* wait_for raises TimeoutError: process.kill(), await process.wait(),
\* 'timeout'.
SafeWorkerTimeout ==
  /\ safe_pc = "await"
  /\ safe_signals' = Append(safe_signals, "SIGKILL")
  /\ SafeAfterRun(FALSE, SafeStatusAfter(safe_status, "timeout"))
  /\ safe_ttl' = SafeTtlAfter
  /\ UNCHANGED <<redis_up, trigger, prompt_queue, notSafe>>

\* The awaited worker takes an entry off the queue.
SafeWorkerDrains ==
  /\ safe_pc = "await"
  /\ redis_up
  /\ prompt_queue > 0
  /\ prompt_queue' = prompt_queue - 1
  /\ UNCHANGED <<redis_up, trigger, trigger_writes, automation_log,
                 worker_status, envOnly>>

SafeInit ==
  /\ safe_pc = "start"
  /\ safe_failures = 0
  /\ safe_status = "absent"
  /\ safe_ttl = -2
  /\ safe_signals = <<>>

SafeStep ==
  \/ SafeStart
  \/ \E spawn_ok \in BOOLEAN : SafeIteration(spawn_ok)
  \/ \E code \in {0, 1} : SafeWorkerExits(code)
  \/ SafeWorkerTimeout

SafeNext ==
  \/ SafeStep
  \/ SafeWorkerDrains
  \/ Enqueue
  \/ \E k \in SupTriggerKinds : SetTrigger(k)
  \/ RedisFails
  \/ RedisRecovers

----------------------------------------------------------------------------
\* CanisterIntegration.process_avai_request and what it calls.

MaxCalls == 2

\* The 'type' of a request ("missing": no such key, get returns None) and its
\* 'data' ("unserialisable": a value json.dumps raises on).
TypeValues == {"analyze", "audit", "report", "missing", "unknown"}
DataValues == {"dict", "missing", "unserialisable"}
Requests == [type : TypeValues, data : DataValues]

\* The external command: exits 0, exits non-zero, cannot be started
\* (create_subprocess_exec raises), or prints bytes that are not UTF-8.
DfxOutcomes == {"exit0", "exit1", "not_started", "undecodable"}

\* What a call gives its caller: a dict (its keys and the value under
\* 'success') or an exception.
Dict(keys, success) == [kind |-> "dict", keys |-> keys, success |-> success]
Raises == [kind |-> "raised", keys |-> {}, success |-> FALSE]
NoReply == [kind |-> "none", keys |-> {}, success |-> FALSE]
\* try: body / except Exception: return handler.
Propagate(body, handler) == body
Catch(body, handler) == IF body.kind = "raised" THEN handler ELSE body

\* _run_dfx_command.
RunDfxCommand(outcome) ==
  Catch(CASE outcome = "exit0" -> Dict({"success", "output", "error"}, TRUE)
          [] outcome = "exit1" -> Dict({"success", "output", "error"}, FALSE)
          [] OTHER -> Raises,
        Dict({"success", "output", "error"}, FALSE))

\* query_canister.
QueryCanister(outcome) ==
  LET result == RunDfxCommand(outcome)
  IN Catch(IF result.kind # "dict" \/ "success" \notin result.keys
           THEN Raises
           ELSE IF result.success
           THEN Dict({"success", "canister_name", "method", "result"}, TRUE)
           ELSE Dict({"success", "error", "canister_name", "method"}, FALSE),
           Dict({"success", "error"}, FALSE))

\* _process_analysis_request, _process_audit_request and
\* _process_report_request: json.dumps of the data, then query_canister.
ProcessTypedRequest(req, outcome) ==
  Catch(IF req.data = "unserialisable" THEN Raises ELSE QueryCanister(outcome),
        Dict({"success", "error"}, FALSE))

\* process_avai_request.
ProcessAvaiRequest(req, outcome) ==
  Catch(IF req.type \in {"analyze", "audit", "report"}
        THEN ProcessTypedRequest(req, outcome)
        ELSE Dict({"success", "error"}, FALSE),
        Dict({"success", "error"}, FALSE))

\* The caller awaits process_avai_request.
CallProcessAvaiRequest ==
  /\ reply = NoReply
  /\ reply' = ProcessAvaiRequest(request, dfx)
  /\ calls' = calls + 1
  /\ UNCHANGED <<request, dfx, notReq>>

\* The caller goes on to its next request.
NextRequest ==
  /\ reply.kind = "dict"
  /\ calls < MaxCalls
  /\ request' \in Requests
  /\ dfx' \in DfxOutcomes
  /\ reply' = NoReply
  /\ UNCHANGED <<calls, notReq>>

ReqInit ==
  /\ request \in Requests
  /\ dfx \in DfxOutcomes
  /\ reply = NoReply
  /\ calls = 0

ReqNext ==
  \/ CallProcessAvaiRequest
  \/ NextRequest

----------------------------------------------------------------------------
\* The failure accounting of monitor_and_process by itself, with the counter
\* as the code keeps it, over every sequence of run results.

MaxRuns == 7

RunReturns(success) ==
  /\ Len(run_log) < MaxRuns
  /\ LET cf == IF success THEN 0 ELSE failure_run + 1
     IN /\ failure_run' = cf
        /\ run_log' = Append(run_log, [success |-> success,
                                       failures |-> cf,
                                       backoff |-> Backoff(success, cf)])
  /\ UNCHANGED notBackoff

BackoffInit ==
  /\ failure_run = 0
  /\ run_log = <<>>

BackoffNext == \E success \in BOOLEAN : RunReturns(success)

----------------------------------------------------------------------------
\* Specifications: one per component, each over all the variables.

vars == <<redisVars, monVars, supVars, hostVars, bridgeVars, canVars, safeVars,
          reqVars, backoffVars>>

\* The supervisor with its default configuration, for the specifications
\* in which it does not run.
SupDefault == SupInit /\ check_interval = 10 /\ processing_timeout = 300
HostDefault == HostInit /\ os_name = "posix"
ReqDefault ==
  ReqInit /\ request = [type |-> "analyze", data |-> "dict"] /\ dfx = "exit0"

Init ==
  /\ RedisInit /\ MonInit /\ SupDefault /\ HostDefault /\ BridgeInit /\ CanInit
  /\ SafeInit /\ ReqDefault /\ BackoffInit
InitSup ==
  /\ RedisInit /\ MonInit /\ SupInit /\ HostDefault /\ BridgeInit /\ CanInit
  /\ SafeInit /\ ReqDefault /\ BackoffInit
InitHost ==
  /\ RedisInit /\ MonInit /\ SupDefault /\ HostInit /\ BridgeInit /\ CanInit
  /\ SafeInit /\ ReqDefault /\ BackoffInit
InitRequest ==
  /\ RedisInit /\ MonInit /\ SupDefault /\ HostDefault /\ BridgeInit /\ CanInit
  /\ SafeInit /\ ReqInit /\ BackoffInit

SpecTrig == Init /\ [][TrigNext]_vars
SpecSup == InitSup /\ [][SupNext]_vars
SpecHost == InitHost /\ [][HostNext]_vars
SpecBridge == Init /\ [][BridgeNext]_vars
SpecCanister == Init /\ [][CanNext]_vars
SpecRequest == InitRequest /\ [][ReqNext]_vars
SpecBackoff == Init /\ [][BackoffNext]_vars

\* The _safe processor: its loop takes a step when it can (the await is
\* bounded by the 300 s timeout), and starting the subprocess does not fail
\* every time.
SpecSafe ==
  /\ Init
  /\ [][SafeNext]_vars
  /\ WF_vars(SafeStep)
  /\ SF_vars(SafeIteration(TRUE) /\ safe_pc' = "await")

\* The monitor and the bridge side by side against one Redis, with the
\* scheduling their event loops give them: a loop that can take a step
\* takes one (every await in them is bounded by a timeout or a sleep), and
\* Popen does not fail every time it is tried.  Workers here end by exiting
\* or by obeying SIGTERM, and every result pushed is a JSON object sent to a
\* reachable endpoint: what is left to vary is Redis.
SupStep ==
  \/ \E pub \in Publishes : SupStart(pub)
  \/ SupCheckTrigger
  \/ \E pub \in Publishes : SupProcess(pub)
  \/ \E code \in {0, 1} : \E d \in WorkerDurations : \E pub \in Publishes :
       WorkerExits(code, d, pub)
  \/ WorkerTimeout
  \/ \E d \in GraceDurations : \E pub \in Publishes : GraceExit(d, pub)

BridgeStep ==
  \/ BridgeInitAttempt
  \/ BridgeConsume
  \/ BridgeConnectionLost

ResumeNext ==
  \/ SupStep
  \/ BridgeStep
  \/ WorkerDrains
  \/ Enqueue
  \/ PushResponse("obj")
  \/ RedisFails
  \/ RedisRecovers

SpecResume ==
  /\ Init
  /\ [][ResumeNext]_vars
  /\ WF_vars(SupStep)
  /\ SF_vars((\E pub \in Publishes : SupProcess(pub)) /\ sup_pc' = "await")
  /\ WF_vars(BridgeStep)

----------------------------------------------------------------------------
\* Properties of the supervisor.

\* A step in which run_main_enhanced starts a worker (Popen succeeded).
SpawnStep == sup_pc = "queue" /\ sup_pc' = "await"

\* C1: at most one worker spawned by the supervisor is alive in every
\* reachable state.
C1_AtMostOneLiveWorker == LiveWorkers <= 1

\* C5: with the queue non-empty, two successive worker spawns are at least
\* min_process_interval seconds apart, whatever the previous run's outcome.
C5_SpawnsRateLimited ==
  [][(SpawnStep /\ prompt_queue > 0) => last_spawn_age >= min_process_interval]_vars

\* C6: when the await ends by timeout, at the return the worker's exit has
\* been waited for (no process is left unconfirmed) and the status written
\* last is 'timeout' (whenever Redis took the write).
C6_TimeoutConfirmsExit ==
  [][(sup_pc = "grace" /\ sup_pc' = "loop")
       => /\ orphans' = orphans
          /\ worker_status' \in {"timeout", worker_status}]_vars

\* C10: the loop starts a worker only in an iteration that received a trigger
\* or found the queue non-empty, and then exactly one: after a worker exits
\* with code 0 and the queue is empty, no iteration spawns again until the
\* queue is non-empty or a trigger arrives; an iteration that finds work with
\* no worker running and the rate limiter open goes on to start one.
C10_SpawnOnlyForWork ==
  [][ /\ (LiveWorkers' > LiveWorkers)
          => /\ LiveWorkers' = LiveWorkers + 1
             /\ SpawnStep
             /\ (trigger_received \/ prompt_queue > 0)
      /\ (sup_pc = "queue" /\ sup_pc' \in {"loop", "await"} /\ redis_up
            /\ prompt_queue > 0
            /\ LiveWorkers = 0 /\ last_process_age >= min_process_interval)
          => \/ SpawnStep /\ LiveWorkers' = 1
             \/ /\ sup_pc' = "loop"
                /\ consecutive_failures' =
                     Min(consecutive_failures + 1, MaxFailures)
    ]_vars

\* Action A can be taken from the current state to a state in which the
\* supervisor's control state is the one this step leads to.
SameControl(A) ==
  \E pc \in {"start", "loop", "queue", "await", "grace", "exited"} :
    /\ pc = sup_pc'
    /\ \E cp \in {"None", "running", "terminated"} :
         /\ cp = current_process'
         /\ \E o \in 0..MaxOrphans, cf \in 0..MaxFailures :
              /\ o = orphans' /\ cf = consecutive_failures'
              /\ \E lpa, lsa \in 0..min_process_interval :
                   /\ lpa = last_process_age' /\ lsa = last_spawn_age'
                   /\ ENABLED (/\ A
                               /\ sup_pc' = pc
                               /\ current_process' = cp
                               /\ orphans' = o
                               /\ consecutive_failures' = cf
                               /\ last_process_age' = lpa
                               /\ last_spawn_age' = lsa)

\* C18: whether the status write goes through or fails makes no difference
\* to what the supervisor does: every step of run(), of the loop and of
\* run_main_enhanced that publishes a status leads, for the same exit code,
\* duration and Popen result, to the same control state with the write
\* failing as with the write succeeding.
C18_PublishFailureIgnored ==
  [][\A pub \in BOOLEAN :
       /\ SupStart(pub) => SameControl(SupStart(~pub))
       /\ SupProcess(pub) => SameControl(SupProcess(~pub))
       /\ \A code \in {0, 1}, d \in WorkerDurations :
            WorkerExits(code, d, pub) => SameControl(WorkerExits(code, d, ~pub))
       /\ \A d \in GraceDurations :
            GraceExit(d, pub) => SameControl(GraceExit(d, ~pub))
       /\ GraceKill(pub) => SameControl(GraceKill(~pub))
       /\ AwaitRaises(pub) => SameControl(AwaitRaises(~pub))]_vars

\* The worker exited with code 0, the write of 'completed' failed (the key
\* still says 'running'), and the loop goes on with the run counted a success.
C18_Witness ==
  /\ sup_pc = "loop"
  /\ worker_status = "running"
  /\ current_process = "None"
  /\ orphans = 0
  /\ consecutive_failures = 0

\* C23: no extra delay before the fifth consecutive failure; from the fifth
\* on the extra delay grows exponentially with the count (each further
\* failure multiplies it by the same factor greater than one); after a
\* success the count is 0 and there is no extra delay.
C23_ExponentialBackoff ==
  \A i \in 1..Len(run_log) :
    /\ run_log[i].success => (run_log[i].failures = 0 /\ run_log[i].backoff = 0)
    /\ run_log[i].failures \in 1..(max_failures - 1) => run_log[i].backoff = 0
    /\ run_log[i].failures >= max_failures => run_log[i].backoff > 0
    /\ (i > 2 /\ run_log[i - 2].backoff > 0 /\ ~run_log[i].success) =>
         /\ run_log[i - 1].backoff > run_log[i - 2].backoff
         /\ run_log[i - 1].backoff * run_log[i - 1].backoff =
              run_log[i - 2].backoff * run_log[i].backoff

\* C26: an iteration whose check_automation_trigger accepted (and deleted) a
\* trigger goes on to spawn a worker, unless Popen itself fails ('error').
C26_TriggerNeverLost ==
  [][(sup_pc = "queue" /\ trigger_received /\ sup_pc' \in {"loop", "await"})
       => (SpawnStep \/ worker_status' = "error")]_vars

\* C27: the consecutive-failure counter goes up only when a spawned worker
\* exited non-zero or timed out, or when running it raised ('error'); an
\* attempt that the rate limiter or the liveness guard rejects leaves it alone.
C27_OnlyRunsCountAsFailures ==
  [][consecutive_failures' > consecutive_failures
       => (sup_pc \in {"await", "grace"} \/ worker_status' = "error")]_vars

\* C29: when run() ends while the loop was running, no worker the
\* supervisor spawned is left alive and untracked by the shutdown.
C29_NoWorkerOutlivesShutdown ==
  [][(sup_pc # "stopped" /\ sup_pc' = "stopped")
       => (orphans' = orphans /\ current_process' = "None")]_vars

\* C22: when a run succeeded and the queue still has entries the loop goes to
\* its next iteration without sleeping (no time has passed since the worker
\* exited); in every other case (failed run, success with the queue empty or
\* unreadable, no run) it sleeps at least the poll interval first.
C22_ContinuesWithoutSleep ==
  [][/\ (sup_pc = "await" /\ sup_pc' = "loop") =>
          IF consecutive_failures' = 0 /\ HasWork
          THEN last_process_age' = 0
          ELSE last_process_age' >= Sat(check_interval)
     /\ (sup_pc = "grace" /\ sup_pc' = "loop") =>
          last_process_age' >= Sat(check_interval)
     /\ (sup_pc = "queue" /\ sup_pc' = "loop") =>
          last_process_age' >= Sat(last_process_age + check_interval)]_vars

\* A run has just succeeded with more work queued: the loop is at its top
\* again and no time has passed.
C22_Witness ==
  /\ sup_pc = "loop"
  /\ worker_status = "completed"
  /\ consecutive_failures = 0
  /\ last_process_age = 0
  /\ redis_up
  /\ prompt_queue > 0

\* C10 witness: a worker has exited with code 0, the queue is empty, no
\* trigger was received, and the loop is about to decide again.
C10_Witness ==
  /\ sup_pc = "queue"
  /\ worker_status = "completed"
  /\ prompt_queue = 0
  /\ ~trigger_received
  /\ LiveWorkers = 0


----------------------------------------------------------------------------
\* Properties of the host automation loop.

\* C3: start_worker invoked while a worker is live returns False, starts
\* nothing and leaves the worker status as it was.
C3_StartWhileLiveReturnsFalse ==
  (host_call.made /\ host_call.live)
     => (host_call.result = "False" /\ ~host_call.spawned)


----------------------------------------------------------------------------
\* Properties of the trigger readers.

\* C2: one write of the trigger key is returned as an action by at most one
\* monitor, also when monitors check concurrently.
C2_TriggerObservedOnce ==
  \A i \in 1..trigger_writes :
     Cardinality({m \in Monitors : <<m, i>> \in observed}) <= 1

\* A trigger whose action is not START_WORKER, STOP_WORKER or RESTART_WORKER
\* (in either case of letters).
InvalidTrigger(v) == v.json # "obj" \/ Upper(v.action) \notin ValidActions

\* C4: a check that read a trigger with no valid action returns none and
\* leaves the key absent (Redis answering throughout).
C4_InvalidTriggerConsumed ==
  [][\A m \in Monitors :
       (mon_pc[m] = "read" /\ mon_pc'[m] = "idle" /\ redis_up
          /\ InvalidTrigger(mon_read[m]))
       => (observed' = observed /\ trigger' = NoTrigger)]_vars

\* A step of run() that handles a new RESTART_WORKER trigger while the
\* worker runs.
RestartWhileRunning ==
  /\ host_pc = "loop"
  /\ redis_up
  /\ worker_process = "running"
  /\ trigger.json = "obj"
  /\ Upper(trigger.action) = "RESTART_WORKER"
  /\ Stamp(trigger, 0) # last_trigger_check
  /\ <<host_pc, worker_process, last_trigger_check, host_call>>'
       # <<host_pc, worker_process, last_trigger_check, host_call>>

\* C11: handling RESTART_WORKER while a worker runs stops the old worker and
\* observes its exit before start_worker looks (it finds no live worker), and
\* unless Popen itself fails a new worker is spawned and is the one alive
\* afterwards, with the automation still in its loop.
C11_RestartStopsThenSpawns ==
  [][RestartWhileRunning =>
       /\ host_pc' = "loop"
       /\ host_call'.made /\ ~host_call'.live
       /\ host_call'.result = "True" =>
            (host_call'.spawned /\ worker_process' = "running")]_vars

\* C25: while the trigger handled last is a STOP_WORKER, the automation
\* starts no worker: a worker that is not running then stays not running,
\* whatever is on avai:prompt_queue.
C25_StoppedStaysStopped ==
  [][(/\ host_pc = "loop"
      /\ last_trigger_check' # NoTrigger
      /\ Upper(last_trigger_check'.action) = "STOP_WORKER"
      /\ worker_process # "running")
       => worker_process' # "running"]_vars

\* ---- OptimizedResponseBridge ---------------------------------------------

SentIds(q) == [i \in 1..Len(q) |-> q[i].id]
NoDuplicates(q) == \A i, j \in 1..Len(q) : q[i] = q[j] => i = j

\* C7 (as stated): while every forward attempt found the WebSocket endpoint
\* reachable, the bridge has sent exactly one message per entry it popped
\* from avai:queue:responses, in order: N pops, N sends, none for N = 0.
C7_OneSendPerPop == ws_failures = 0 => ws_sent = SentIds(popped)

\* C7 (amended): while every forward attempt found the WebSocket endpoint
\* reachable, the bridge has sent exactly one message per popped entry that
\* parses as a JSON object, in order, and none for any other popped entry.
C7_OneSendPerPoppedObject ==
  ws_failures = 0 => ws_sent = SentIds(SelectSeq(popped, LAMBDA e : e.json = "obj"))

\* Pops of both sorts happened with the endpoint reachable throughout.
C7_Witness ==
  /\ ws_failures = 0
  /\ Len(ws_sent) >= 1
  /\ \E i \in 1..Len(popped) : popped[i].json # "obj"
  /\ \E i \in 1..Len(popped) : popped[i].json = "obj"

\* C9: a step in which the bridge pops an entry leaves the list exactly one
\* entry shorter (the entry is not pushed back, sent or not), the list grows
\* only when a producer pushes, and no id is sent twice.
C9_NeverRequeued ==
  [][ /\ popped' # popped => responses' = Front(responses)
      /\ Len(responses') > Len(responses) => (pushed' = pushed + 1 /\ popped' = popped)
      /\ NoDuplicates(ws_sent') ]_vars

\* An object entry was popped while the endpoint was down: it is in neither
\* the sent messages nor the list.
C9_Witness ==
  /\ ws_failures > 0
  /\ \E i \in 1..Len(popped) :
       /\ popped[i].json = "obj"
       /\ \A j \in 1..Len(ws_sent) : ws_sent[j] # popped[i].id
       /\ \A j \in 1..Len(responses) : responses[j].id # popped[i].id

\* A step in which the bridge pops an entry of the given sort.
Pops(kind) == popped' # popped /\ Last(popped').json = kind

\* C12: popping a string that is not JSON sends nothing and leaves the
\* consume loop running; the entry popped next, when it is an object and
\* the endpoint is reachable, is forwarded.
C12_MalformedSkipped ==
  [][ /\ Pops("malformed") => (ws_sent' = ws_sent /\ bridge_pc' = "consume")
      /\ (Len(popped) > 0 /\ Last(popped).json = "malformed" /\ Pops("obj") /\ ws_up)
           => ws_sent' = Append(ws_sent, Last(popped').id) ]_vars

\* A non-JSON entry was popped and the object popped after it was sent.
C12_Witness ==
  /\ bridge_pc = "consume"
  /\ \E i \in 1..(Len(popped) - 1) :
       /\ popped[i].json = "malformed"
       /\ popped[i + 1].json = "obj"
       /\ \E j \in 1..Len(ws_sent) : ws_sent[j] = popped[i + 1].id

\* A step of init_redis that finds Redis unreachable.
FailedAttempt ==
  /\ bridge_pc \in {"start", "reconnect"}
  /\ ~redis_up
  /\ bridge_attempt' # bridge_attempt

C15_FailuresNeverFatal ==
  /\ [](safe_pc = "loop" => [](safe_pc \in {"loop", "await"}))
  /\ (<>[]HasWork /\ <>(safe_pc = "loop")) => []<>(safe_pc = "await")

\* C21: every status the supervisor writes is one of ready, starting,
\* running, completed, failed, timeout, error, stopped, and when a spawned
\* run ends the status written for it is the terminal one of its outcome
\* (completed, failed, timeout or error; stopped if the supervisor then ends).
C21_StatusMatchesOutcome ==
  [][/\ safe_status' \in {"absent", "ready", "starting", "running",
                          "completed", "failed", "timeout", "error", "stopped"}
     /\ (safe_pc = "await" /\ safe_pc' # "await" /\ redis_up) =>
          safe_status' \in {"completed", "failed", "timeout", "error",
                            "stopped"}]_vars

\* C24: whenever a status record exists, its key has a time-to-live, so that
\* it expires once the supervisor stops writing.
C24_StatusExpires == safe_status # "absent" => safe_ttl > 0

\* C20: the signals sent to a worker that ran into the timeout start with
\* the graceful SIGTERM, and a SIGKILL is sent only after a SIGTERM (and the
\* grace period that follows it).
C20_TerminateBeforeKill ==
  [][(safe_signals' # safe_signals /\ safe_signals' # <<>>) =>
       /\ safe_signals'[1] = "SIGTERM"
       /\ \A i \in 1..Len(safe_signals') :
            safe_signals'[i] = "SIGKILL" =>
              (i > 1 /\ safe_signals'[i - 1] = "SIGTERM")]_vars

\* ---- Redis outages ----------------------------------------------------------

\* Once in its loop the monitor stays in it, and while the queue stays
\* non-empty on a reachable Redis it spawns a worker again and again.
MonitorResumes ==
  /\ [](sup_pc = "loop" => [](sup_pc # "exited"))
  /\ (<>[]HasWork /\ <>(sup_pc = "loop")) => []<>(sup_pc = "await")

\* With Redis reachable for good, everything pushed ends up forwarded.
\* C19: whatever the request's type and data and whatever the dfx command
\* does, process_avai_request gives its caller a dict that has the key
\* 'success'; it never raises.
C19_AlwaysADictWithSuccess ==
  reply # NoReply => (reply.kind = "dict" /\ "success" \in reply.keys)

\* An audit request answered although dfx could not be started.
C19_Witness ==
  /\ request.type = "audit"
  /\ dfx = "not_started"
  /\ reply.kind = "dict"
  /\ ~reply.success
  /\ calls = MaxCalls

\* C17: with Redis unreachable at start-up the monitor and the bridge exit
\* without entering their loops: from start-up they go nowhere but to the
\* exit, and until they have connected (and for ever after the exit) no trigger
\* was read, no worker spawned, no status written and no result popped.
SupNeverRan ==
  /\ worker_status = "absent"
  /\ ~trigger_received
  /\ current_process = "None"
  /\ orphans = 0
BridgeNeverRan == popped = <<>> /\ ws_sent = <<>>
C17_ExitWithoutRedis ==
  [][/\ (sup_pc = "start" /\ ~redis_up) => sup_pc' \in {"start", "exited"}
     /\ sup_pc' \in {"start", "exited"} => SupNeverRan'
     /\ sup_pc = "exited" => sup_pc' = "exited"
     /\ (bridge_pc = "start" /\ ~redis_up) => bridge_pc' \in {"start", "exited"}
     /\ bridge_pc' = "start" => BridgeNeverRan'
     /\ (bridge_pc = "start" /\ bridge_pc' = "exited") => BridgeNeverRan'
     /\ bridge_pc = "exited" =>
          (bridge_pc' = "exited" /\ UNCHANGED <<popped, ws_sent>>)
    ]_vars

\* Both gave up at start-up; Redis is back with a prompt and a result
\* waiting, and neither is served.
C17_Witness ==
  /\ sup_pc = "exited"
  /\ bridge_pc = "exited"
  /\ SupNeverRan
  /\ BridgeNeverRan
  /\ redis_up
  /\ prompt_queue > 0
  /\ Len(responses) > 0

\* Position of the entry with a given id in the sequence of popped entries.
PosIn(q, id) == CHOOSE k \in 1..Len(q) : q[k].id = id

\* C16: results are forwarded in the order they were popped, and (ids being
\* assigned in LPUSH order) in the order they were pushed.
C16_ForwardedInOrder ==
  \A i, j \in 1..Len(ws_sent) :
    i < j => /\ \E k \in 1..Len(popped) : popped[k].id = ws_sent[i]
             /\ \E k \in 1..Len(popped) : popped[k].id = ws_sent[j]
             /\ PosIn(popped, ws_sent[i]) < PosIn(popped, ws_sent[j])
             /\ ws_sent[i] < ws_sent[j]

\* Two results forwarded around one that was popped and dropped.
C16_Witness ==
  /\ Len(ws_sent) >= 2
  /\ Len(popped) > Len(ws_sent)
  /\ popped[1].id = ws_sent[1]
  /\ popped[Len(popped)].id = ws_sent[Len(ws_sent)]

BridgeForwardsAll == []<>(Len(ws_sent) = pushed)

C8_OneResultPerRequest ==
  \A id \in 1..MaxMs : Count(canister_results, id) = Count(handled, id)

\* C28: at most one _process_canister_requests loop is active at a time.
C28_AtMostOneLoop == Cardinality({l \in Loops : loop_pc[l] # "none"}) <= 1

\* The requests waiting on the two lists that queue_canister_request put
\* there (it nests the caller's fields under "data").
QueuedByBridge ==
  SelectSeq(deploy_queue \o query_queue, LAMBDA r : r.nested)

\* C30: the ids queue_canister_request gave the requests it queued are
\* pairwise different.
C30_RequestIdsUnique ==
  \A i, j \in 1..Len(QueuedByBridge) :
    QueuedByBridge[i].request_id = QueuedByBridge[j].request_id => i = j

====
